---------------------------- MODULE Spec2Model ----------------------------
(***************************************************************************)
(* A model of the low-voltage lead agent (src/lambda.py): the Lambda       *)
(* handler that runs a capped prefix of SEARCH_QUERIES, filters the search *)
(* results by domain, fetches the linked page and two contact sub-paths,   *)
(* extracts contact data with regular expressions, builds size-capped      *)
(* items and puts them into a key-value table keyed by a derived id.       *)
(*                                                                         *)
(* Text is modelled as TLA+ strings (sequences of characters).  Offsets    *)
(* are 0-based as in Python: offset i lies before character i+1.           *)
(***************************************************************************)
EXTENDS Integers, Sequences, FiniteSets, TLC

(***************************************************************************)
(* State: the environment (configuration, the search index and the web),   *)
(* the table, the handler's locals, and records of the calls made.         *)
(***************************************************************************)
VARIABLES
  env,          \* os.environ as read at import: MAX_QUERIES_PER_RUN, and whether
                \* GOOGLE_API_KEY with GOOGLE_CX, and TABLE_NAME, are set
  world,        \* what the search API, the web, the table and the clock do during
                \* this execution
  now,          \* time.time()
  store,        \* the table: id -> item
  pc,           \* the handler's position
  run,          \* invocations of lambda_handler so far
  queries,      \* SEARCH_QUERIES[:MAX_QUERIES_PER_RUN] of the running invocation
  qi,           \* lambda_handler: position of q in queries
  total_saved,  \* lambda_handler: total_saved
  items,        \* process_search_results: items
  ri,           \* process_search_results: position of result in items
  saved_count,  \* process_search_results: saved_count
  cur,          \* process_search_results: the locals of the result being saved
  ei,           \* process_search_results: position of email in emails_found
  response,     \* what lambda_handler returned
  fetchLog,     \* the page fetches made for the last result: url, ok, text returned
  saves,        \* the save_lead_to_dynamo calls made for the last result
  lastPut,      \* the item handed to the last table.put_item call, and its outcome
  keyOf,        \* for each id of the table, the (url, email) pairs put under it
  calls,        \* per invocation: calls made, by kind
  tried,        \* per invocation: ids handed to save_lead_to_dynamo
  lost,         \* per invocation: ids whose save_lead_to_dynamo returned False
  hist,         \* per finished invocation: the table's ids, tried and lost
  fin,          \* input of the function under test (function specifications)
  fout          \* its output

vars == << env, world, now, store, pc, run, queries, qi, total_saved, items, ri,
           saved_count, cur, ei, response, fetchLog, saves, lastPut, keyOf, calls,
           tried, lost, hist, fin, fout >>

(***************************************************************************)
(* Strings                                                                 *)
(***************************************************************************)
Ch(s, i) == SubSeq(s, i, i)

Min2(a, b) == IF a <= b THEN a ELSE b

Max2(a, b) == IF a >= b THEN a ELSE b

\* s[a:b] of Python for 0 <= a, 0 <= b (no negative indices are used).
Slice(s, a, b) == SubSeq(s, a + 1, Min2(b, Len(s)))

LOWERS == {"a","b","c","d","e","f","g","h","i","j","k","l","m",
           "n","o","p","q","r","s","t","u","v","w","x","y","z"}

UPPERS == {"A","B","C","D","E","F","G","H","I","J","K","L","M",
           "N","O","P","Q","R","S","T","U","V","W","X","Y","Z"}

DIGITS == {"0","1","2","3","4","5","6","7","8","9"}

\* \s of the re module, restricted to the ASCII whitespace the model uses.
WS == {" ", "\t", "\n", "\r"}

LowerOf ==
  "A" :> "a" @@ "B" :> "b" @@ "C" :> "c" @@ "D" :> "d" @@ "E" :> "e" @@
  "F" :> "f" @@ "G" :> "g" @@ "H" :> "h" @@ "I" :> "i" @@ "J" :> "j" @@
  "K" :> "k" @@ "L" :> "l" @@ "M" :> "m" @@ "N" :> "n" @@ "O" :> "o" @@
  "P" :> "p" @@ "Q" :> "q" @@ "R" :> "r" @@ "S" :> "s" @@ "T" :> "t" @@
  "U" :> "u" @@ "V" :> "v" @@ "W" :> "w" @@ "X" :> "x" @@ "Y" :> "y" @@
  "Z" :> "z"

LowerCh(c) == IF c \in UPPERS THEN LowerOf[c] ELSE c

\* str.lower(), by halves so that long texts need only logarithmic depth.
RECURSIVE Lower(_)
Lower(s) ==
  IF Len(s) = 0 THEN ""
  ELSE IF Len(s) = 1 THEN LowerCh(s)
  ELSE LET h == Len(s) \div 2
       IN  Lower(SubSeq(s, 1, h)) \o Lower(SubSeq(s, h + 1, Len(s)))

\* n copies of s; used to build long inputs.
RECURSIVE Rep(_, _)
Rep(s, n) ==
  IF n <= 0 THEN ""
  ELSE LET h == Rep(s, n \div 2)
       IN  h \o h \o (IF n % 2 = 1 THEN s ELSE "")

StartsAt(s, sub, i) ==
  /\ i + Len(sub) <= Len(s)
  /\ SubSeq(s, i + 1, i + Len(sub)) = sub

\* str.find(sub): offset of the first occurrence, or -1.
Find(s, sub) ==
  IF \E i \in 0..(Len(s) - Len(sub)) : StartsAt(s, sub, i)
  THEN CHOOSE i \in 0..(Len(s) - Len(sub)) :
         /\ StartsAt(s, sub, i)
         /\ \A k \in 0..(i - 1) : ~StartsAt(s, sub, k)
  ELSE -1

EndsWith(s, suf) ==
  /\ Len(suf) <= Len(s)
  /\ SubSeq(s, Len(s) - Len(suf) + 1, Len(s)) = suf

Contains(s, sub) == Find(s, sub) # -1

\* Offset of the first character at or after offset i for which the run of
\* characters satisfying (c \in cs) # neg stops; Len(s) when it never stops.
RunEnd(s, i, cs, neg) ==
  LET n == Len(s)
      In(j) == (Ch(s, j) \in cs) # neg
  IN  CHOOSE e \in i..n :
        /\ (e = n \/ ~In(e + 1))
        /\ \A k \in (i + 1)..e : In(k)

\* str.strip()
Strip(s) ==
  LET a == RunEnd(s, 0, WS, FALSE)
  IN  IF a = Len(s) THEN ""
      ELSE LET b == CHOOSE e \in (a + 1)..Len(s) :
                      /\ Ch(s, e) \notin WS
                      /\ \A k \in (e + 1)..Len(s) : Ch(s, k) \in WS
           IN  SubSeq(s, a + 1, b)

\* len(s.split()): the number of maximal runs of non-whitespace characters.
WordCount(s) ==
  Cardinality({i \in 1..Len(s) :
                 /\ Ch(s, i) \notin WS
                 /\ (i = 1 \/ Ch(s, i - 1) \in WS)})

(***************************************************************************)
(* Regular expressions, with the backtracking semantics of Python's re:    *)
(* Ends(re, s, i, ic) is the sequence of offsets at which a match of re    *)
(* starting at offset i can end, in the order the engine tries them; the   *)
(* engine's match is the first.  ic is re.IGNORECASE.                      *)
(***************************************************************************)
INF == -1

RSet(cs) == [t |-> "set", cs |-> cs, neg |-> FALSE]

RNot(cs) == [t |-> "set", cs |-> cs, neg |-> TRUE]

RLit(str) == [t |-> "lit", s |-> str]

RCat(rs) == [t |-> "cat", rs |-> rs]

RAlt(rs) == [t |-> "alt", rs |-> rs]

ROpt(r) == [t |-> "opt", r |-> r]

\* lo to hi (INF: unbounded) characters of a class, greedy or lazy.
RRun(cs, neg, lo, hi, greedy) ==
  [t |-> "run", cs |-> cs, neg |-> neg, lo |-> lo, hi |-> hi, greedy |-> greedy]

RECURSIVE Ends(_, _, _, _), CatEnds(_, _, _, _, _), FlatAll(_, _, _, _, _),
          FlatEnds(_, _, _, _, _, _, _), AltEnds(_, _, _, _, _)
Ends(re, s, i, ic) ==
  CASE re.t = "set" ->
         IF i < Len(s) /\ ((Ch(s, i + 1) \in re.cs) # re.neg)
         THEN <<i + 1>> ELSE <<>>
    [] re.t = "lit" ->
         IF /\ i + Len(re.s) <= Len(s)
            /\ IF ic THEN Lower(SubSeq(s, i + 1, i + Len(re.s))) = Lower(re.s)
                     ELSE SubSeq(s, i + 1, i + Len(re.s)) = re.s
         THEN <<i + Len(re.s)>> ELSE <<>>
    [] re.t = "run" ->
         LET m  == RunEnd(s, i, re.cs, re.neg) - i
             mm == IF re.hi = INF THEN m ELSE Min2(m, re.hi)
         IN  IF mm < re.lo THEN <<>>
             ELSE IF re.greedy
                  THEN [k \in 1..(mm - re.lo + 1) |-> i + mm - (k - 1)]
                  ELSE [k \in 1..(mm - re.lo + 1) |-> i + re.lo + (k - 1)]
    [] re.t = "opt" -> Ends(re.r, s, i, ic) \o <<i>>
    [] re.t = "alt" -> AltEnds(re.rs, 1, s, i, ic)
    [] re.t = "cat" -> CatEnds(re.rs, 1, s, i, ic)

CatEnds(rs, k, s, i, ic) ==
  IF k > Len(rs) THEN <<i>>
  ELSE FlatAll(Ends(rs[k], s, i, ic), rs, k + 1, s, ic)

FlatAll(es, rs, k, s, ic) == FlatEnds(es, 1, Len(es), rs, k, s, ic)

\* The ends of rs[k..] from each of es[lo..hi], in order (by halves).
FlatEnds(es, lo, hi, rs, k, s, ic) ==
  IF lo > hi THEN <<>>
  ELSE IF lo = hi THEN CatEnds(rs, k, s, es[lo], ic)
  ELSE LET mid == (lo + hi) \div 2
       IN  FlatEnds(es, lo, mid, rs, k, s, ic) \o FlatEnds(es, mid + 1, hi, rs, k, s, ic)

AltEnds(rs, k, s, i, ic) ==
  IF k > Len(rs) THEN <<>>
  ELSE Ends(rs[k], s, i, ic) \o AltEnds(rs, k + 1, s, i, ic)

\* The first element of a sequence of offsets, or -1.
FirstOf(es) == IF es = <<>> THEN -1 ELSE es[1]

\* The first element other than -1 of a sequence of offsets, or -1.
FirstHit(ts) ==
  IF \A j \in DOMAIN ts : ts[j] = -1 THEN -1
  ELSE ts[CHOOSE j \in DOMAIN ts : ts[j] # -1 /\ \A k \in 1..(j - 1) : ts[k] = -1]

\* The end of the engine's match of re at offset i, or -1: the first of
\* Ends(re, s, i, ic), found without listing the rest of a concatenation.
RECURSIVE FirstCat(_, _, _, _, _), FirstFrom(_, _, _, _, _), Tails(_, _, _, _, _)
FirstCat(rs, k, s, i, ic) ==
  IF k > Len(rs) THEN i
  ELSE FirstFrom(Ends(rs[k], s, i, ic), rs, k + 1, s, ic)

\* The match of rs[k..] from the first of the offsets es that has one.
FirstFrom(es, rs, k, s, ic) == FirstHit(Tails(es, rs, k, s, ic))

Tails(es, rs, k, s, ic) == [j \in 1..Len(es) |-> FirstCat(rs, k, s, es[j], ic)]

MatchAt(re, s, i, ic) ==
  IF re.t = "cat" THEN FirstCat(re.rs, 1, s, i, ic)
  ELSE FirstOf(Ends(re, s, i, ic))

\* For each offset, the end of the engine's match there, or -1.
Hits(re, s, ic) == [q \in 0..Len(s) |-> MatchAt(re, s, q, ic)]

\* The first offset at or after p with a match in h, or -1.
NextHit(h, n, p) ==
  IF \E q \in p..n : h[q] # -1
  THEN CHOOSE q \in p..n : h[q] # -1 /\ \A k \in p..(q - 1) : h[k] = -1
  ELSE -1

\* re.search from offset p: <<start, end>> of the leftmost match, or <<-1, -1>>.
SpanAt(h, q) == IF q = -1 THEN <<-1, -1>> ELSE <<q, h[q]>>

Span(h, n, p) == SpanAt(h, NextHit(h, n, p))

SearchFrom(re, s, p, ic) == Span(Hits(re, s, ic), Len(s), p)

\* re.finditer: the spans of the non-overlapping matches, left to right.
\* (No pattern of the program matches the empty string.)
RECURSIVE IterFrom(_, _, _), IterAt(_, _, _)
IterFrom(h, n, p) == IterAt(h, n, NextHit(h, n, p))

IterAt(h, n, q) ==
  IF q = -1 THEN <<>>
  ELSE <<<<q, h[q]>>>> \o IterFrom(h, n, Max2(h[q], q + 1))

FindIter(re, s, ic) == IterFrom(Hits(re, s, ic), Len(s), 0)

\* re.sub(re, repl, s): the text between the matches ms[lo..hi], each
\* followed by repl (by halves).
RECURSIVE SubPieces(_, _, _, _, _)
SubPieces(ms, lo, hi, repl, s) ==
  IF lo > hi THEN ""
  ELSE IF lo = hi
  THEN Slice(s, IF lo = 1 THEN 0 ELSE ms[lo - 1][2], ms[lo][1]) \o repl
  ELSE LET mid == (lo + hi) \div 2
       IN  SubPieces(ms, lo, mid, repl, s) \o SubPieces(ms, mid + 1, hi, repl, s)

Replaced(ms, repl, s) ==
  IF ms = <<>> THEN s
  ELSE SubPieces(ms, 1, Len(ms), repl, s) \o Slice(s, ms[Len(ms)][2], Len(s))

ReSub(re, repl, s, ic) == Replaced(FindIter(re, s, ic), repl, s)

\* The distinct elements of a sequence, as a set (Python's set(...)).
Range(f) == {f[k] : k \in DOMAIN f}

(***************************************************************************)
(* Regex patterns of the program                                           *)
(***************************************************************************)
ALNUM == LOWERS \cup UPPERS \cup DIGITS

\* [a-zA-Z0-9_.+-]+@[a-zA-Z0-9-]+\.[a-zA-Z0-9-.]+
EMAIL_REGEX ==
  RCat(<< RRun(ALNUM \cup {"_", ".", "+", "-"}, FALSE, 1, INF, TRUE),
          RLit("@"),
          RRun(ALNUM \cup {"-"}, FALSE, 1, INF, TRUE),
          RLit("."),
          RRun(ALNUM \cup {"-", "."}, FALSE, 1, INF, TRUE) >>)

\* [-.\s]
PHONE_SEP == {"-", "."} \cup WS

\* (\+?1[-.\s]*)?(\(?\d{3}\)?[-.\s]*)\d{3}[-.\s]*\d{4}
PHONE_REGEX ==
  RCat(<< ROpt(RCat(<< RRun({"+"}, FALSE, 0, 1, TRUE),
                       RLit("1"),
                       RRun(PHONE_SEP, FALSE, 0, INF, TRUE) >>)),
          RRun({"("}, FALSE, 0, 1, TRUE),
          RRun(DIGITS, FALSE, 3, 3, TRUE),
          RRun({")"}, FALSE, 0, 1, TRUE),
          RRun(PHONE_SEP, FALSE, 0, INF, TRUE),
          RRun(DIGITS, FALSE, 3, 3, TRUE),
          RRun(PHONE_SEP, FALSE, 0, INF, TRUE),
          RRun(DIGITS, FALSE, 4, 4, TRUE) >>)

\* \d{1,5}\s+[A-Za-z0-9.\s]+(Street|St\.|...|Place|Pl\.)[,A-Za-z0-9\s\-]*
ADDRESS_REGEX ==
  RCat(<< RRun(DIGITS, FALSE, 1, 5, TRUE),
          RRun(WS, FALSE, 1, INF, TRUE),
          RRun(ALNUM \cup {"."} \cup WS, FALSE, 1, INF, TRUE),
          RAlt(<< RLit("Street"), RLit("St."), RLit("Avenue"), RLit("Ave."),
                  RLit("Road"), RLit("Rd."), RLit("Boulevard"), RLit("Blvd."),
                  RLit("Lane"), RLit("Ln."), RLit("Drive"), RLit("Dr."),
                  RLit("Court"), RLit("Ct."), RLit("Way"), RLit("Terrace"),
                  RLit("Ter."), RLit("Place"), RLit("Pl.") >>),
          RRun({",", "-"} \cup ALNUM \cup WS, FALSE, 0, INF, TRUE) >>)

\* \s+
WS_RUN == RRun(WS, FALSE, 1, INF, TRUE)

(***************************************************************************)
(* Small helpers                                                           *)
(***************************************************************************)
\* truncate_string, cutting one character late.
truncate_string_late(value, max_len) ==
  IF value = "" THEN ""
  ELSE IF Len(value) <= max_len THEN value
  ELSE Slice(value, 0, max_len + 1)

truncate_string(value, max_len) ==
  IF value = "" THEN ""
  ELSE IF Len(value) <= max_len THEN value
  ELSE Slice(value, 0, max_len)

\* per_item_max_len is given at every call site of the program.
truncate_list(values, max_items, per_item_max_len) ==
  IF values = <<>> THEN <<>>
  ELSE LET trimmed == SubSeq(values, 1, Min2(max_items, Len(values)))
       IN  [k \in 1..Len(trimmed) |-> truncate_string(trimmed[k], per_item_max_len)]

(***************************************************************************)
(* Page text extraction                                                    *)
(***************************************************************************)
\* (?is)<(script|style).*?>.*?(</\1>) : the group has two alternatives, so
\* the back-reference yields one alternative per tag name.
SCRIPT_STYLE_REGEX ==
  RAlt(<< RCat(<< RLit("<script"), RRun({}, TRUE, 0, INF, FALSE), RLit(">"),
                  RRun({}, TRUE, 0, INF, FALSE), RLit("</script>") >>),
          RCat(<< RLit("<style"), RRun({}, TRUE, 0, INF, FALSE), RLit(">"),
                  RRun({}, TRUE, 0, INF, FALSE), RLit("</style>") >>) >>)

\* <[^>]+>
TAG_REGEX == RCat(<< RLit("<"), RRun({">"}, TRUE, 1, INF, TRUE), RLit(">") >>)

strip_html(html_text) ==
  IF html_text = "" THEN ""
  ELSE ReSub(WS_RUN, " ",
             ReSub(TAG_REGEX, " ",
                   ReSub(SCRIPT_STYLE_REGEX, " ", html_text, TRUE), FALSE), FALSE)

(***************************************************************************)
(* Contact info extraction.  Each extractor returns list(set(...)): the    *)
(* model keeps the set, and the caller draws the list's order.             *)
(***************************************************************************)
SpanTexts(ms, s) == {Slice(s, ms[k][1], ms[k][2]) : k \in DOMAIN ms}

MatchTexts(re, s, ic) == SpanTexts(FindIter(re, s, ic), s)

extract_emails(text) ==
  IF text = "" THEN {} ELSE MatchTexts(EMAIL_REGEX, text, FALSE)

extract_phones(text) ==
  IF text = "" THEN {}
  ELSE {Strip(ReSub(WS_RUN, " ", full, FALSE)) :
          full \in MatchTexts(PHONE_REGEX, text, FALSE)}

extract_addresses(text) ==
  IF text = "" THEN {}
  ELSE {Strip(ReSub(WS_RUN, " ", addr, FALSE)) :
          addr \in MatchTexts(ADDRESS_REGEX, text, FALSE)}

\* An optional string (a str or None): <<>> is None, <<s>> is the string s.
None == <<>>

Some(s) == <<s>>

\* The label patterns, each without its final group (.+):
\* Contact\s*[:\-]\s*, Contacts\s*[:\-]\s*, Attn\.?\s*[:\-]?\s*, Attention\s*[:\-]\s*
NAME_PATTERNS ==
  << << RLit("Contact"), RRun(WS, FALSE, 0, INF, TRUE), RSet({":", "-"}),
        RRun(WS, FALSE, 0, INF, TRUE) >>,
     << RLit("Contacts"), RRun(WS, FALSE, 0, INF, TRUE), RSet({":", "-"}),
        RRun(WS, FALSE, 0, INF, TRUE) >>,
     << RLit("Attn"), RRun({"."}, FALSE, 0, 1, TRUE), RRun(WS, FALSE, 0, INF, TRUE),
        RRun({":", "-"}, FALSE, 0, 1, TRUE), RRun(WS, FALSE, 0, INF, TRUE) >>,
     << RLit("Attention"), RRun(WS, FALSE, 0, INF, TRUE), RSet({":", "-"}),
        RRun(WS, FALSE, 0, INF, TRUE) >> >>

\* (.+) : one or more characters other than a newline
NAME_GROUP == RRun({"\n"}, TRUE, 1, INF, TRUE)

\* [,\n]| at | for 
NAME_SPLIT_REGEX == RAlt(<< RSet({",", "\n"}), RLit(" at "), RLit(" for ") >>)

\* The first of the offsets es (in the engine's order) at which the group matches.
RECURSIVE GroupStart(_, _, _)
GroupStart(es, j, s) ==
  IF j > Len(es) THEN -1
  ELSE IF MatchAt(NAME_GROUP, s, es[j], TRUE) # -1 THEN es[j]
  ELSE GroupStart(es, j + 1, s)

\* m.group(1) of the match m (a span) of a label pattern and its group.
GroupOf(label, snippet, m) ==
  IF m[1] = -1 THEN None
  ELSE Some(Slice(snippet,
                  GroupStart(CatEnds(label, 1, snippet, m[1], TRUE), 1, snippet),
                  m[2]))

\* m.group(1) of re.search(pat, snippet, re.IGNORECASE), or None.
NameGroup(label, snippet) ==
  GroupOf(label, snippet, SearchFrom(RCat(label \o <<NAME_GROUP>>), snippet, 0, TRUE))

\* re.split(r"[,\n]| at | for ", name)[0].strip(), cut being the first split point
CutName(name, cut) == Strip(IF cut[1] = -1 THEN name ELSE Slice(name, 0, cut[1]))

NamePart(name) == CutName(name, SearchFrom(NAME_SPLIT_REGEX, name, 0, FALSE))

\* if 2 <= len(name_part.split()) <= 5: return name_part
Accepted(name_part) ==
  IF 2 <= WordCount(name_part) /\ WordCount(name_part) <= 5
  THEN Some(name_part) ELSE None

CandidateOf(g) == IF g = None THEN None ELSE Accepted(NamePart(g[1]))

\* The candidate one label pattern yields: the name, or None when the
\* pattern does not match or its name has fewer than 2 or more than 5 words.
NameCandidate(label, snippet) == CandidateOf(NameGroup(label, snippet))

NAME_SCAN_LEN == 2000

\* for pat in patterns: the first pattern that yields a name, from pattern k on.
RECURSIVE FirstName(_, _), OrNextName(_, _, _)
FirstName(k, snippet) ==
  IF k > Len(NAME_PATTERNS) THEN None
  ELSE OrNextName(NameCandidate(NAME_PATTERNS[k], snippet), k, snippet)

OrNextName(c, k, snippet) == IF c # None THEN c ELSE FirstName(k + 1, snippet)

extract_contact_name(text) ==
  IF text = "" THEN None
  ELSE FirstName(1, Slice(text, 0, NAME_SCAN_LEN))

SNIPPET_KEYWORDS == <<"phone", "tel", "call", "email">>

SNIPPET_BEFORE == 200

SNIPPET_AFTER == 400

SNIPPET_FALLBACK == 400

\* The loop over the fallback keywords: idx after it.
RECURSIVE KeywordIdx(_, _)
KeywordIdx(lower, k) ==
  IF k > Len(SNIPPET_KEYWORDS) THEN -1
  ELSE LET idx == Find(lower, SNIPPET_KEYWORDS[k])
       IN  IF idx # -1 THEN idx ELSE KeywordIdx(lower, k + 1)

\* find_contact_snippet, looking for "contact", "phone" and "email" only and
\* returning the window as cut.
find_contact_snippet_plain(text) ==
  IF text = "" THEN None
  ELSE LET lower == Lower(text)
           idx   == IF Find(lower, "contact") # -1 THEN Find(lower, "contact")
                    ELSE IF Find(lower, "phone") # -1 THEN Find(lower, "phone")
                    ELSE Find(lower, "email")
       IN  IF idx = -1 THEN Some(Slice(text, 0, SNIPPET_FALLBACK))
           ELSE Some(Slice(text, Max2(0, idx - SNIPPET_BEFORE),
                           Min2(Len(text), idx + SNIPPET_AFTER)))

find_contact_snippet(text) ==
  IF text = "" THEN None
  ELSE LET lower == Lower(text)
           first == Find(lower, "contact")
           idx   == IF first = -1 THEN KeywordIdx(lower, 1) ELSE first
       IN  IF idx = -1 THEN Some(Slice(text, 0, SNIPPET_FALLBACK))
           ELSE Some(Strip(Slice(text, Max2(0, idx - SNIPPET_BEFORE),
                                 Min2(Len(text), idx + SNIPPET_AFTER))))

(***************************************************************************)
(* Configuration and search definitions                                    *)
(***************************************************************************)
SEARCH_QUERIES ==
  << "\"commercial low voltage contractor\" \"New York\"",
     "\"structured cabling\" \"office\" \"NYC\"",
     "\"network cabling contractor\" \"New York City\"",
     "\"low voltage contractor\" \"Philadelphia\" \"commercial\"",
     "\"low voltage contractor\" \"Boston\" \"commercial\"",
     "\"low voltage contractor\" \"Connecticut\" \"business\"",
     "\"low voltage contractor\" \"New Jersey\" \"office\"",
     "\"low voltage contractor\" \"Baltimore\" \"commercial\"",
     "\"security camera\" \"correctional facility\" \"bid\"",
     "\"access control\" \"detention center\" \"RFP\"",
     "\"surveillance\" \"county jail\" \"low voltage\"",
     "\"network cabling\" \"correctional facility\" \"New York\"",
     "\"security system\" \"state prison\" \"RFP\"",
     "\"low voltage design\" architect \"New York\"",
     "\"security systems\" \"consulting engineer\" \"NYC\"",
     "\"structured cabling\" \"MEP engineer\" \"Boston\"",
     "\"low voltage\" \"electrical engineer\" \"Philadelphia\"",
     "\"security camera\" \"architectural firm\" \"New York\"",
     "\"access control\" \"architect\" \"specifications\"",
     "\"low voltage\" \"RFP\" \"New York\"",
     "\"security camera\" \"RFP\" \"New Jersey\"",
     "\"access control\" \"bid\" \"Connecticut\"",
     "\"surveillance system\" \"RFP\" \"Pennsylvania\"" >>

MAX_EMAILS == 15

MAX_PHONES == 10

MAX_ADDRESSES == 10

MAX_TITLE_LEN == 300

MAX_SEARCH_SNIPPET_LEN == 500

MAX_CONTACT_SNIPPET_LEN == 800

MAX_RESULTS_PER_QUERY == 3

MAX_EMAIL_LEN == 254

MAX_PHONE_LEN == 64

MAX_ADDRESS_LEN == 512

MAX_URL_LEN == 1000

MAX_DOMAIN_LEN == 255

MAX_SOURCE_QUERY_LEN == 500

MAX_CONTACT_NAME_LEN == 255

SKIP_DOMAINS ==
  { "facebook.com", "instagram.com", "twitter.com", "x.com", "linkedin.com",
    "indeed.com", "glassdoor.com", "yelp.com", "angi.com", "homeadvisor.com",
    "yellowpages.com", "bing.com", "google.com", "maps.google.com",
    "youtube.com", "pinterest.com", "hdcnetworks.com" }

(***************************************************************************)
(* urllib.parse.urlparse, as far as the program reads it: scheme, netloc   *)
(***************************************************************************)
SCHEME_CHARS == ALNUM \cup {"+", "-", "."}

\* The offset of the ":" that ends a scheme, or -1 when the url has none.
SchemeEnd(url) ==
  LET i == Find(url, ":")
  IN  IF /\ i > 0
         /\ Ch(url, 1) \in LOWERS \cup UPPERS
         /\ \A k \in 1..i : Ch(url, k) \in SCHEME_CHARS
      THEN i ELSE -1

UrlScheme(url) ==
  IF SchemeEnd(url) = -1 THEN "" ELSE Lower(Slice(url, 0, SchemeEnd(url)))

\* The text between "//" and the next "/", "?" or "#".
UrlNetloc(url) ==
  LET rest == IF SchemeEnd(url) = -1 THEN url
              ELSE Slice(url, SchemeEnd(url) + 1, Len(url))
  IN  IF StartsAt(rest, "//", 0)
      THEN Slice(rest, 2, RunEnd(rest, 2, {"/", "?", "#"}, TRUE))
      ELSE ""

(***************************************************************************)
(* Helpers for the table and domain filtering                              *)
(***************************************************************************)
\* hashlib.sha256(...).hexdigest(): the digest stands for its preimage
\* (distinct inputs give distinct digests).
Sha256Hex(base) == <<"sha256", base>>

OrEmpty(opt) == IF opt = None THEN "" ELSE opt[1]

\* The id, had it also hashed the invocation.
make_lead_id_per_run(url, email) ==
  Sha256Hex(url \o "|" \o OrEmpty(email) \o "|" \o ToString(run))

make_lead_id(url, email) == Sha256Hex(url \o "|" \o OrEmpty(email))

\* `if opt:` of Python for an optional string
Truthy(opt) == opt # None /\ opt[1] # ""

build_lead_item(result, emails, phones, addresses, contact_name, contact_snippet, chosen_email, source_query, time_now) ==
  LET url    == result.link
      domain == IF url # "" THEN UrlNetloc(url) ELSE ""
      contact_snippet_capped ==
        truncate_string(OrEmpty(contact_snippet), MAX_CONTACT_SNIPPET_LEN)
      item == [ id           |-> make_lead_id(url, chosen_email),
                url          |-> truncate_string(url, MAX_URL_LEN),
                title        |-> truncate_string(result.title, MAX_TITLE_LEN),
                snippet      |-> truncate_string(result.snippet, MAX_SEARCH_SNIPPET_LEN),
                domain       |-> truncate_string(domain, MAX_DOMAIN_LEN),
                source_query |-> truncate_string(source_query, MAX_SOURCE_QUERY_LEN),
                created_at   |-> time_now,
                emails       |-> truncate_list(emails, MAX_EMAILS, MAX_EMAIL_LEN),
                phones       |-> truncate_list(phones, MAX_PHONES, MAX_PHONE_LEN),
                addresses    |-> truncate_list(addresses, MAX_ADDRESSES, MAX_ADDRESS_LEN) ]
  IN  item
      @@ (IF Truthy(chosen_email)
          THEN [primary_email |-> truncate_string(chosen_email[1], MAX_EMAIL_LEN)]
          ELSE <<>>)
      @@ (IF Truthy(contact_name)
          THEN [contact_name |-> truncate_string(contact_name[1], MAX_CONTACT_NAME_LEN)]
          ELSE <<>>)
      @@ (IF contact_snippet_capped # ""
          THEN [contact_snippet |-> contact_snippet_capped]
          ELSE <<>>)

\* The gate, had it tested the lists against None instead of for emptiness.
is_high_quality_lead_not_none(emails, phones, addresses) ==
  emails # None \/ phones # None \/ addresses # None \/ TRUE

is_high_quality_lead(emails, phones, addresses) ==
  emails # <<>> \/ phones # <<>> \/ addresses # <<>>

should_skip_domain(url) ==
  IF url = "" THEN TRUE
  ELSE LET domain == Lower(UrlNetloc(url))
       IN  \E bad \in SKIP_DOMAINS : domain = bad \/ EndsWith(domain, "." \o bad)

\* Bounds of the exploration.
MaxRuns == 2


\* Search results the index can return (title, link, snippet).
R_ACME == [title |-> "Acme Cabling | Commercial Low Voltage",
           link |-> "https://acme.com/about",
           snippet |-> "Structured cabling for offices in New York"]

R_FB == [title |-> "Acme Cabling - low voltage RFP New York",
         link |-> "https://www.facebook.com/acmecabling",
         snippet |-> "Call 212-555-1234"]

R_X == [title |-> "Acme (@acme) / X", link |-> "https://x.com/acme", snippet |-> ""]

R_XPORT == [title |-> "Acme (@acme) / X", link |-> "https://X.com:443/acme",
            snippet |-> "low voltage"]

R_AX == [title |-> "AX Security", link |-> "https://ax.com/", snippet |-> "Access control"]

R_PDF == [title |-> "RFP 21-07 Security Cameras", link |-> "https://county.gov/rfp.PDF",
          snippet |-> "Bids due"]

R_CSV == [title |-> "Vendor list", link |-> "https://data.ny.gov/list.csv", snippet |-> ""]

R_EMPTY == [title |-> "Empty", link |-> "https://empty.org/", snippet |-> "nothing"]

R_DOWN == [title |-> "Down", link |-> "https://down.net/x", snippet |-> ""]

R_NOLINK == [title |-> "No link", link |-> "", snippet |-> ""]

R_LONG == [title |-> "Long", link |-> "https://long.example/", snippet |-> ""]

Results == { R_ACME, R_FB, R_X, R_XPORT, R_AX, R_PDF, R_CSV, R_EMPTY, R_DOWN,
             R_NOLINK, R_LONG }

\* requests.get(url): ok is FALSE for a network error or a 4xx/5xx status.
Failed == [ok |-> FALSE, ctype |-> "", body |-> ""]

Html(body) == [ok |-> TRUE, ctype |-> "text/html; charset=utf-8", body |-> body]

\* The web: what each url answers when it answers.
Page(url) ==
  CASE url = "https://acme.com/about" ->
         Html("<SCRIPT>e='t@ads.io'</script><p>Contact: Al Roe, CEO</p>\n"
              \o "al@acme.com (212) 555-1234")
    [] url = "https://acme.com/contact" ->
         Html("<p>Email info@acme.com or al@acme.com</p><p>12 Main St.</p>")
    [] url = "https://X.com:443/acme" -> Html("<p>DM acme@x.com</p>")
    [] url = "https://ax.com/" -> Html("<b>AX</b> call +1 518 555 0199")
    [] url = "https://county.gov/rfp.PDF" ->
         [ok |-> TRUE, ctype |-> "application/octet-stream",
          body |-> "%PDF <</T>> Attn: Bid Desk, 5 Court St. 315-555-0100"]
    [] url = "https://county.gov/contact-us" ->
         [ok |-> TRUE, ctype |-> "Application/PDF", body |-> "<b>clerk@county.gov</b>"]
    [] url = "https://data.ny.gov/list.csv" ->
         [ok |-> TRUE, ctype |-> "text/plain", body |-> "a@b.co,212-555-0000"]
    [] url = "https://data.ny.gov/contact" ->
         [ok |-> TRUE, ctype |-> "Text/CSV", body |-> "c@d.co"]
    [] url = "https://empty.org/" -> Html("<p>Nothing   here</p>")
    [] url = "https://down.net/contact" ->
         Html("Attention: Jane Doe for bids 400 Oak Avenue, Albany")
    [] url = "https://long.example/" -> Html(Rep("a", 250) \o "@l.io")
    [] OTHER -> Failed

\* The answer of the web in this execution: world.outage is a url that fails.
WebGet(url) == IF url = world.outage THEN Failed ELSE Page(url)

\* The answer of the search API: ok is FALSE for a network error or a
\* 4xx/5xx status; items is the "items" array of the JSON body.
SearchGet(query) ==
  IF query = SEARCH_QUERIES[1] THEN world.r1
  ELSE IF query = SEARCH_QUERIES[2] THEN world.r2
  ELSE [ok |-> TRUE, items |-> <<>>]

(***************************************************************************)
(* Calls to the outside: each returns what the function returns, and       *)
(* raised when an exception leaves the function.                           *)
(***************************************************************************)
google_search(query) ==
  IF ~env.GOOGLE THEN [raised |-> FALSE, requests |-> 0, items |-> <<>>]
  ELSE LET resp == SearchGet(query)
       IN  IF resp.ok
           THEN [raised |-> FALSE, requests |-> 1,
                 items |-> SubSeq(resp.items, 1,
                                  Min2(MAX_RESULTS_PER_QUERY, Len(resp.items)))]
           ELSE [raised |-> FALSE, requests |-> 1, items |-> <<>>]

\* The candidate urls of try_contact_pages(base_url, max_pages=2).
ContactCandidates(base_url) ==
  LET base == UrlScheme(base_url) \o "://" \o UrlNetloc(base_url)
  IN  << base \o "/contact", base \o "/contact-us" >>

\* The urls a run can fetch, and the bodies they can answer with.
Urls ==
  UNION { {r.link} \cup Range(ContactCandidates(r.link)) : r \in Results \ {R_NOLINK} }

\* strip_html is a function of the body alone: tabulated once per body.
StripTable == [b \in {Page(u).body : u \in Urls} |-> strip_html(b)]

\* fetch_page_text, had it not caught the request's exception.
fetch_page_text_uncaught(resp, url) ==
  IF ~resp.ok THEN [raised |-> TRUE, text |-> ""]
  ELSE IF Contains(Lower(resp.ctype), "text/csv") \/ EndsWith(Lower(url), ".csv")
  THEN [raised |-> FALSE, text |-> ""]
  ELSE IF Contains(Lower(resp.ctype), "pdf") \/ EndsWith(Lower(url), ".pdf")
  THEN [raised |-> FALSE, text |-> resp.body]
  ELSE [raised |-> FALSE, text |-> strip_html(resp.body)]

\* fetch_page_text(url), resp being the response of requests.get(url).
fetch_page_text(resp, url) ==
  LET content_type == Lower(resp.ctype)
  IN  IF ~resp.ok THEN [raised |-> FALSE, text |-> ""]
      ELSE IF Contains(content_type, "text/csv") \/ EndsWith(Lower(url), ".csv")
      THEN [raised |-> FALSE, text |-> ""]
      ELSE IF Contains(content_type, "pdf") \/ EndsWith(Lower(url), ".pdf")
      THEN [raised |-> FALSE, text |-> resp.body]
      ELSE [raised |-> FALSE, text |-> StripTable[resp.body]]

\* " ".join(texts)
RECURSIVE JoinSpace(_)
JoinSpace(texts) ==
  IF texts = <<>> THEN ""
  ELSE IF Len(texts) = 1 THEN texts[1]
  ELSE texts[1] \o " " \o JoinSpace(Tail(texts))

\* try_contact_pages: the texts that are not empty
NonEmptyTexts(texts) == SelectSeq(texts, LAMBDA x : x # "")

\* combined_text = page_text + " " + " ".join(extra_texts)
CombinedText(texts) == texts[1] \o " " \o JoinSpace(NonEmptyTexts(Tail(texts)))

\* The extractors are functions of the combined text alone: tabulated once
\* per text a run can combine (each of a result's three fetches may fail).
CombinedTexts ==
  { CombinedText([k \in 1..3 |->
       IF k \in up
       THEN fetch_page_text(Page((<<r.link>> \o ContactCandidates(r.link))[k]),
                     (<<r.link>> \o ContactCandidates(r.link))[k]).text
       ELSE ""]) :
      r \in Results \ {R_NOLINK}, up \in SUBSET (1..3) }

ContactsTable ==
  [ t \in CombinedTexts |->
      [ emails          |-> extract_emails(t),
        phones          |-> extract_phones(t),
        addresses       |-> extract_addresses(t),
        contact_name    |-> extract_contact_name(t),
        contact_snippet |-> find_contact_snippet(t) ] ]

\* What table.put_item does: it returns, or raises ClientError with this
\* code ("ClientError": any other code), or raises BotoCoreError.
PutOutcomes == {"ok", "ValidationException", "ClientError", "BotoCoreError"}

\* save_lead_to_dynamo, had it handled ValidationException only.
save_lead_to_dynamo_reraising(outcome) ==
  IF ~env.TABLE THEN [raised |-> FALSE, put |-> FALSE, saved |-> FALSE]
  ELSE IF outcome = "ok" THEN [raised |-> FALSE, put |-> TRUE, saved |-> TRUE]
  ELSE IF outcome = "ValidationException"
  THEN [raised |-> FALSE, put |-> TRUE, saved |-> FALSE]
  ELSE [raised |-> TRUE, put |-> TRUE, saved |-> FALSE]

\* save_lead_to_dynamo(item), given what put_item does: whether an exception
\* leaves it, whether put_item was called, and the value returned.
save_lead_to_dynamo(outcome) ==
  IF ~env.TABLE THEN [raised |-> FALSE, put |-> FALSE, saved |-> FALSE]
  ELSE IF outcome = "ok" THEN [raised |-> FALSE, put |-> TRUE, saved |-> TRUE]
  ELSE [raised |-> FALSE, put |-> TRUE, saved |-> FALSE]

\* list(set): the orders in which a set can come out as a list.
Orders(S) ==
  {f \in [1..Cardinality(S) -> S] : \A a, b \in 1..Cardinality(S) : f[a] = f[b] => a = b}

\* seq[:c] of Python
PySliceTo(seq, c) ==
  IF c >= 0 THEN SubSeq(seq, 1, Min2(c, Len(seq)))
  ELSE SubSeq(seq, 1, Max2(0, Len(seq) + c))

(***************************************************************************)
(* The handler                                                             *)
(***************************************************************************)
NoCalls == [queries |-> 0, search |-> 0, results |-> 0, fetch |-> 0,
            save |-> 0, put |-> 0, putOk |-> 0, ses |-> 0]

NoCur == [result |-> R_NOLINK, emails |-> <<>>, phones |-> <<>>, addresses |-> <<>>,
          contact_name |-> None, contact_snippet |-> None, combined_text |-> ""]

NoPut == [item |-> <<>>, outcome |-> "none", n |-> 0]

\* The lists the search API may answer the first query with.
ResultLists ==
  { <<>>, <<R_ACME>>, <<R_FB, R_X>>, <<R_XPORT>>, <<R_AX, R_PDF>>, <<R_CSV, R_EMPTY>>,
    <<R_DOWN>>, <<R_LONG>>, <<R_NOLINK, R_X, R_ACME, R_PDF>> }

SearchFailed == [ok |-> FALSE, items |-> <<>>]

Found(l) == [ok |-> TRUE, items |-> l]

\* What the successive put_item calls of the execution do; the calls after
\* the last one listed succeed.
PutScripts ==
  { <<>>,
    <<"ValidationException">>,
    <<"ClientError">>,
    <<"BotoCoreError">>,
    <<"ok", "ValidationException", "ok", "ClientError">>,
    <<"ok", "ok", "BotoCoreError", "ok", "ValidationException">>,
    <<"ClientError", "BotoCoreError", "ValidationException", "ClientError",
      "BotoCoreError", "ValidationException", "ClientError", "BotoCoreError">> }

PutOutcome(n) == IF n <= Len(world.puts) THEN world.puts[n] ELSE "ok"

Worlds ==
  [ r1     : {SearchFailed} \cup {Found(l) : l \in ResultLists},
    r2     : {SearchFailed, Found(<<R_ACME, R_AX>>)},
    outage : {"", "https://acme.com/about"},
    puts   : PutScripts,
    tick   : {0, 1} ]

\* A world in which every search fails.
QuietWorld ==
  [r1 |-> SearchFailed, r2 |-> SearchFailed, outage |-> "", puts |-> <<>>, tick |-> 0]

\* MAX_QUERIES_PER_RUN = int(os.getenv("MAX_QUERIES_PER_RUN", "8")): any integer.
CapValues == {-22, 0, 1, 2, 24}

Envs == [MAX_QUERIES_PER_RUN : CapValues, GOOGLE : BOOLEAN, TABLE : BOOLEAN]

\* The configurations explored: those that differ only in an input the run
\* never reads are represented once, and the runs over all 23 queries and
\* the runs without a table are explored for a few search indexes.
Explored(e, w) ==
  LET cap == e.MAX_QUERIES_PER_RUN
      acme == \E k \in DOMAIN w.r1.items : w.r1.items[k] = R_ACME
  IN  /\ ~e.GOOGLE => cap = 1 /\ e.TABLE /\ w = QuietWorld
      /\ cap = 0 => w = QuietWorld
      /\ w.r1.items = <<>> /\ w.r2.items = <<>> => w.puts = <<>> /\ w.tick = 0
      /\ ~e.TABLE => w.puts = <<>>
      /\ cap \in {-22, 1} => w.r2 = SearchFailed
      /\ cap = 2 => w.r2 # SearchFailed
      /\ cap = 24 => w.r1 \in {SearchFailed, Found(<<R_AX, R_PDF>>)} /\ w.r2 # SearchFailed
      /\ w.outage # "" => acme /\ cap = 1
      /\ ~e.TABLE => cap = 1 /\ w.r1 \in {Found(<<R_ACME>>), Found(<<R_CSV, R_EMPTY>>)}

NoFunction == [name |-> "none"]

PipelineInit ==
  /\ now = 0
  /\ store = <<>>
  /\ keyOf = <<>>
  /\ pc = "idle"
  /\ run = 0
  /\ queries = <<>>
  /\ qi = 0
  /\ total_saved = 0
  /\ items = <<>>
  /\ ri = 0
  /\ saved_count = 0
  /\ cur = NoCur
  /\ ei = 0
  /\ response = None
  /\ fetchLog = <<>>
  /\ saves = <<>>
  /\ lastPut = NoPut
  /\ calls = NoCalls
  /\ tried = {}
  /\ lost = {}
  /\ hist = <<>>

Init ==
  /\ env \in Envs
  /\ world \in Worlds
  /\ Explored(env, world)
  /\ PipelineInit
  /\ fin = NoFunction
  /\ fout = NoFunction

\* The trigger invokes lambda_handler (again: the table and the module's
\* globals outlive an invocation).
Invoke ==
  /\ pc \in {"idle", "done"}
  /\ run < MaxRuns
  /\ run' = run + 1
  /\ queries' = PySliceTo(SEARCH_QUERIES, env.MAX_QUERIES_PER_RUN)
  /\ qi' = 1
  /\ total_saved' = 0
  /\ pc' = "query"
  /\ calls' = NoCalls
  /\ tried' = {}
  /\ lost' = {}
  /\ response' = None
  /\ items' = <<>>
  /\ ri' = 0
  /\ saved_count' = 0
  /\ cur' = NoCur
  /\ ei' = 0
  /\ fetchLog' = <<>>
  /\ saves' = <<>>
  /\ UNCHANGED << env, world, now, store, keyOf, lastPut, hist, fin, fout >>

\* for q in SEARCH_QUERIES[:MAX_QUERIES_PER_RUN]: process_search_results(q), up
\* to its loop over the results.
RunQuery ==
  /\ pc = "query"
  /\ qi <= Len(queries)
  /\ LET s == google_search(queries[qi])
     IN  /\ pc' = IF s.raised THEN "crashed" ELSE "result"
         /\ items' = s.items
         /\ calls' = [calls EXCEPT !.queries = @ + 1, !.search = @ + s.requests]
  /\ ri' = 1
  /\ saved_count' = 0
  /\ UNCHANGED << env, world, now, store, keyOf, run, queries, qi, total_saved, cur,
                  ei, response, fetchLog, saves, lastPut, tried, lost, hist,
                  fin, fout >>

\* for result in items: a result without a link, or of a skipped domain.
SkipResult ==
  /\ pc = "result"
  /\ ri <= Len(items)
  /\ should_skip_domain(items[ri].link)
  /\ ri' = ri + 1
  /\ fetchLog' = <<>>
  /\ saves' = <<>>
  /\ cur' = NoCur
  /\ calls' = [calls EXCEPT !.results = @ + 1]
  /\ UNCHANGED << env, world, now, store, keyOf, pc, run, queries, qi, total_saved,
                  items, saved_count, ei, response, lastPut, tried, lost, hist,
                  fin, fout >>

\* The fetches of one result: the linked page, then the contact candidates.
FetchOf(url, resp) ==
  [url |-> url, ok |-> resp.ok, raised |-> fetch_page_text(resp, url).raised,
   text |-> fetch_page_text(resp, url).text]

FetchAll(urls) == [k \in 1..Len(urls) |-> FetchOf(urls[k], WebGet(urls[k]))]

Fetches(url) == FetchAll(<<url>> \o ContactCandidates(url))

\* for result in items: fetch, extract, and the gate.
ProcessResult ==
  /\ pc = "result"
  /\ ri <= Len(items)
  /\ ~should_skip_domain(items[ri].link)
  /\ fetchLog' = Fetches(items[ri].link)
  /\ saves' = <<>>
  /\ calls' = [calls EXCEPT !.results = @ + 1, !.fetch = @ + Len(fetchLog')]
  /\ \E combined_text \in {CombinedText([k \in 1..Len(fetchLog') |-> fetchLog'[k].text])} :
     \E found \in {ContactsTable[combined_text]} :
     \E emails_found \in Orders(found.emails),
        phones_found \in Orders(found.phones),
        addresses_found \in Orders(found.addresses) :
           /\ cur' = [ result          |-> items[ri],
                       emails          |-> emails_found,
                       phones          |-> phones_found,
                       addresses       |-> addresses_found,
                       contact_name    |-> found.contact_name,
                       contact_snippet |-> found.contact_snippet,
                       combined_text   |-> combined_text ]
           /\ IF \E k \in DOMAIN fetchLog' : fetchLog'[k].raised
              THEN pc' = "crashed" /\ ri' = ri /\ ei' = ei
              ELSE IF is_high_quality_lead(emails_found, phones_found, addresses_found)
              THEN pc' = "save" /\ ri' = ri /\ ei' = 1
              ELSE pc' = "result" /\ ri' = ri + 1 /\ ei' = ei
  /\ UNCHANGED << env, world, now, store, keyOf, run, queries, qi, total_saved, items,
                  saved_count, response, lastPut, tried, lost, hist, fin, fout >>

\* The chosen email, had the loop passed emails_found[0] every time.
ChosenEmail_first == IF cur.emails # <<>> THEN Some(cur.emails[1]) ELSE None

\* The chosen_email of the item being built: the email of the loop over
\* emails_found, or None in the branch without emails.
ChosenEmail == IF cur.emails # <<>> THEN Some(cur.emails[ei]) ELSE None

CurItem ==
  build_lead_item(cur.result, cur.emails, cur.phones, cur.addresses,
                  cur.contact_name, cur.contact_snippet, ChosenEmail,
                  queries[qi], now)

\* item = build_lead_item(...); if save_lead_to_dynamo(item): saved_count += 1
\* (the clock has advanced by world.tick when the next item is built).
SaveLead ==
  /\ pc = "save"
  /\ now' = now + world.tick
  /\ \E outcome \in {IF env.TABLE THEN PutOutcome(lastPut.n + 1) ELSE "none"},
        item \in {CurItem} :
       LET s    == save_lead_to_dynamo(outcome)
           key  == <<cur.result.link, ChosenEmail>>
           last == cur.emails = <<>> \/ ei >= Len(cur.emails)
       IN  /\ store' = IF s.saved THEN (item.id :> item) @@ store ELSE store
           /\ keyOf' = IF s.saved
                       THEN (item.id :> ({key} \cup (IF item.id \in DOMAIN keyOf
                                                     THEN keyOf[item.id] ELSE {})))
                            @@ keyOf
                       ELSE keyOf
           /\ saved_count' = IF s.saved THEN saved_count + 1 ELSE saved_count
           /\ lastPut' = IF s.put
                         THEN [item |-> item, outcome |-> outcome, n |-> lastPut.n + 1]
                         ELSE lastPut
           /\ saves' = Append(saves, [item |-> item, email |-> ChosenEmail,
                                      outcome |-> outcome, saved |-> s.saved])
           /\ calls' = [calls EXCEPT !.save = @ + 1,
                                     !.put = @ + (IF s.put THEN 1 ELSE 0),
                                     !.putOk = @ + (IF s.saved THEN 1 ELSE 0)]
           /\ tried' = tried \cup {item.id}
           /\ lost' = IF s.saved THEN lost \ {item.id} ELSE lost \cup {item.id}
           /\ IF s.raised THEN pc' = "crashed" /\ ri' = ri /\ ei' = ei
              ELSE IF last THEN pc' = "result" /\ ri' = ri + 1 /\ ei' = ei
              ELSE pc' = "save" /\ ri' = ri /\ ei' = ei + 1
  /\ UNCHANGED << env, world, run, queries, qi, total_saved, items, cur,
                  response, fetchLog, hist, fin, fout >>

\* return saved_count; total_saved += saved_for_query
EndQuery ==
  /\ pc = "result"
  /\ ri > Len(items)
  /\ total_saved' = total_saved + saved_count
  /\ qi' = qi + 1
  /\ pc' = "query"
  /\ UNCHANGED << env, world, now, store, keyOf, run, queries, items, ri,
                  saved_count, cur, ei, response, fetchLog, saves, lastPut, calls,
                  tried, lost, hist, fin, fout >>

\* return {"statusCode": 200, "body": json.dumps({message, saved})}
Return ==
  /\ pc = "query"
  /\ qi > Len(queries)
  /\ response' = Some([statusCode |-> 200,
                       body |-> [message |-> "Low-voltage agent ran successfully.",
                                 saved |-> total_saved]])
  /\ hist' = Append(hist, [ids |-> DOMAIN store, tried |-> tried, lost |-> lost])
  /\ pc' = "done"
  /\ UNCHANGED << env, world, now, store, keyOf, run, queries, qi, total_saved,
                  items, ri, saved_count, cur, ei, fetchLog, saves, lastPut, calls,
                  tried, lost, fin, fout >>

Next ==
  \/ Invoke
  \/ RunQuery
  \/ SkipResult
  \/ ProcessResult
  \/ SaveLead
  \/ EndQuery
  \/ Return

Spec == Init /\ [][Next]_vars

(***************************************************************************)
(* Properties of the pipeline                                              *)
(***************************************************************************)
\* An item with a contact channel: a non-empty primary_email, or a non-empty
\* phones list, or a non-empty addresses list.
HasChannel(item) ==
  \/ ("primary_email" \in DOMAIN item /\ item.primary_email # "")
  \/ item.phones # <<>>
  \/ item.addresses # <<>>

\* The last result was fetched, passed the gate, and its saves are finished.
SavesFinished ==
  /\ pc = "result"
  /\ fetchLog # <<>>
  /\ cur.emails # <<>> \/ cur.phones # <<>> \/ cur.addresses # <<>>

\* C1: no save (hence no put_item) is made for a result whose extracted
\* emails, phones and addresses are all empty, and every item written to or
\* handed to the table has a non-empty primary_email, a non-empty phones list
\* or a non-empty addresses list.
C1_GateKeepsContactlessOut ==
  /\ pc = "save" => (cur.emails # <<>> \/ cur.phones # <<>> \/ cur.addresses # <<>>)
  /\ (cur.emails = <<>> /\ cur.phones = <<>> /\ cur.addresses = <<>>) => saves = <<>>
  /\ \A id \in DOMAIN store : HasChannel(store[id])
  /\ \A k \in DOMAIN saves : HasChannel(saves[k].item)
  /\ lastPut # NoPut => HasChannel(lastPut.item)

\* A result without any contact channel was fetched and dropped without a
\* put, in a run that wrote another result's phone-only item.
C1_Witness ==
  /\ pc = "result"
  /\ fetchLog # <<>>
  /\ cur.result = R_EMPTY
  /\ cur.emails = <<>> /\ cur.phones = <<>> /\ cur.addresses = <<>>
  /\ saves = <<>>
  /\ \E id \in DOMAIN store :
       "primary_email" \notin DOMAIN store[id] /\ store[id].phones # <<>>

\* The host of a link: its network location without the port, lower-cased.
C2_Host(url) ==
  LET netloc == Lower(UrlNetloc(url))
      colon  == Find(netloc, ":")
  IN  IF colon = -1 THEN netloc ELSE Slice(netloc, 0, colon)

C2_Denied(url) ==
  \E bad \in SKIP_DOMAINS : C2_Host(url) = bad \/ EndsWith(C2_Host(url), "." \o bad)

\* C2: for every result whose link's host is in SKIP_DOMAINS or is a
\* subdomain of an entry, should_skip_domain returns True, and no page of it
\* is fetched and no item of it is written.
C2_DeniedHostsSkipped ==
  /\ \A k \in DOMAIN items : C2_Denied(items[k].link) => should_skip_domain(items[k].link)
  /\ \A k \in DOMAIN fetchLog : ~C2_Denied(fetchLog[k].url)
  /\ \A k \in DOMAIN saves : ~C2_Denied(saves[k].item.url)
  /\ \A id \in DOMAIN store : ~C2_Denied(store[id].url)

\* C3 as stated: ids are a function of (url, email), the table holds at most
\* one item per pair, and a second run on the same search results and pages
\* leaves the set of stored ids unchanged.
C3_SecondRunSameIds ==
  /\ \A id \in DOMAIN store : store[id].id = id
  /\ \A a, b \in DOMAIN keyOf : keyOf[a] \cap keyOf[b] # {} => a = b
  /\ \A k \in 2..Len(hist) : hist[k].ids = hist[k - 1].ids

\* C3 as amended: the second run leaves the set of stored ids unchanged when
\* every save of the first run succeeded, and in every case adds only ids
\* that the first run handed to save_lead_to_dynamo.
C3_SecondRunSameIdsUnlessLost ==
  /\ \A id \in DOMAIN store : store[id].id = id
  /\ \A a, b \in DOMAIN keyOf : keyOf[a] \cap keyOf[b] # {} => a = b
  /\ \A k \in 2..Len(hist) :
       /\ hist[k - 1].lost = {} => hist[k].ids = hist[k - 1].ids
       /\ hist[k].ids \subseteq hist[k - 1].ids \cup hist[k - 1].tried
       /\ hist[k].tried = hist[k - 1].tried

\* Two runs have finished, the first saved several items without a failure,
\* and the second put them again.
C3_Witness ==
  /\ Len(hist) = 2
  /\ hist[1].lost = {}
  /\ Cardinality(hist[1].ids) >= 2
  /\ hist[2].lost = {}
  /\ hist[2].ids = hist[1].ids
  /\ lastPut.outcome = "ok" /\ lastPut.item.id \in hist[1].ids

\* The fields C4 says the items of one result share (absent: None).
C4_Shared(item) ==
  << item.emails, item.phones, item.addresses,
     IF "contact_name" \in DOMAIN item THEN Some(item.contact_name) ELSE None,
     IF "contact_snippet" \in DOMAIN item THEN Some(item.contact_snippet) ELSE None >>

\* What C4 says of a finished result; cut: the primary_email expected of the
\* item saved for an email is the email's first 254 characters (else: the email).
C4_FanOut(cut) ==
  SavesFinished =>
    IF cur.emails # <<>>
    THEN /\ Len(saves) = Len(cur.emails)
         /\ \A k \in DOMAIN saves :
              /\ saves[k].email = Some(cur.emails[k])
              /\ "primary_email" \in DOMAIN saves[k].item
              /\ saves[k].item.primary_email =
                   IF cut /\ Len(cur.emails[k]) > 254
                   THEN SubSeq(cur.emails[k], 1, 254) ELSE cur.emails[k]
              /\ C4_Shared(saves[k].item) = C4_Shared(saves[1].item)
         /\ \A j, k \in DOMAIN saves : saves[j].item.id = saves[k].item.id => j = k
    ELSE /\ Len(saves) = 1
         /\ "primary_email" \notin DOMAIN saves[1].item
         /\ saves[1].item.emails = <<>>

\* C4 as stated: a result that passes the gate with n >= 1 distinct emails
\* gets exactly n saves, one per email, each item carrying that email as
\* primary_email and a distinct id, all n items equal in every other field;
\* a result that passes the gate without emails gets exactly one save, of an
\* item without primary_email and with an empty emails list.
C4_OneItemPerEmail == C4_FanOut(FALSE)

\* C4 as amended: each item carries that email cut to its first 254
\* characters as primary_email.
C4_OneItemPerEmailCut == C4_FanOut(TRUE)

\* A result with two emails got its two saves, and (in another state) a
\* result with an email of more than 254 characters got its save.
C4_Witness ==
  /\ SavesFinished
  /\ Len(cur.emails) = 2
  /\ Len(saves) = 2
  /\ saves[1].item.primary_email # saves[2].item.primary_email

C4_WitnessLong ==
  /\ SavesFinished
  /\ \E k \in DOMAIN cur.emails : Len(cur.emails[k]) > 254

C4_WitnessNoEmail ==
  /\ SavesFinished
  /\ cur.emails = <<>>
  /\ Len(saves) = 1

\* The results the searches of the running invocation's first k queries return.
RECURSIVE C5_Results(_)
C5_Results(k) ==
  IF k = 0 THEN 0
  ELSE C5_Results(k - 1)
       + (IF env.GOOGLE /\ SearchGet(queries[k]).ok
          THEN Min2(MAX_RESULTS_PER_QUERY, Len(SearchGet(queries[k]).items))
          ELSE 0)

\* C5: whatever writes fail (ValidationException, another ClientError,
\* BotoCoreError, or no table configured), save_lead_to_dynamo returns False
\* without raising, the failed item is not counted, every remaining email,
\* result and query is still processed, and lambda_handler returns statusCode
\* 200 with saved equal to the number of put_item calls that succeeded.
C5_WriteFailuresContained ==
  /\ pc # "crashed"
  /\ \A k \in DOMAIN saves : saves[k].saved = (env.TABLE /\ saves[k].outcome = "ok")
  /\ calls.putOk = total_saved + (IF pc \in {"result", "save"} THEN saved_count ELSE 0)
  /\ SavesFinished => Len(saves) = Max2(1, Len(cur.emails))
  /\ pc = "done" =>
       /\ response # None
       /\ response[1].statusCode = 200
       /\ response[1].body.saved = calls.putOk
       /\ calls.queries = Len(queries)
       /\ calls.results = C5_Results(Len(queries))

\* A run returned after a write failed and a later write succeeded.
C5_Witness ==
  /\ pc = "done"
  /\ calls.put > calls.putOk
  /\ calls.putOk >= 1
  /\ lastPut.outcome = "ok"
  /\ response[1].body.saved = calls.putOk

\* C6: a failed page fetch returns the empty string and a failed search an
\* empty list, neither raises, and the run goes on: the contact sub-paths are
\* fetched and the extraction runs on the text obtained even when the linked
\* page failed, and the remaining results and queries are processed.
C6_RequestFailuresContained ==
  /\ pc # "crashed"
  /\ \A k \in DOMAIN fetchLog : ~fetchLog[k].ok => fetchLog[k].text = ""
  /\ fetchLog # <<>> =>
       /\ [k \in DOMAIN fetchLog |-> fetchLog[k].url]
            = <<cur.result.link>> \o ContactCandidates(cur.result.link)
       /\ \A k \in 2..Len(fetchLog) :
            fetchLog[k].text # "" => \E i \in 0..Len(cur.combined_text) :
                                       StartsAt(cur.combined_text, fetchLog[k].text, i)
       /\ \A e \in Range(cur.emails) :
            \E i \in 0..Len(cur.combined_text) : StartsAt(cur.combined_text, e, i)
  /\ (pc \in {"result", "save"} /\ env.GOOGLE /\ ~SearchGet(queries[qi]).ok) => items = <<>>
  /\ pc = "done" =>
       /\ calls.queries = Len(queries)
       /\ calls.search = IF env.GOOGLE THEN Len(queries) ELSE 0

\* The linked page failed, a contact sub-path answered, and the result is
\* being saved with what the sub-path gave.
C6_Witness ==
  /\ pc = "save"
  /\ ~fetchLog[1].ok
  /\ fetchLog[2].ok /\ fetchLog[2].text # ""
  /\ cur.addresses # <<>>

\* The first search of a run failed and the run went on to its second query.
C6_WitnessSearch ==
  /\ pc = "result"
  /\ qi = 2
  /\ ~world.r1.ok
  /\ items # <<>>

\* C7: when a run returns with at least one lead saved (and recipients and a
\* sender are configured), a summary email has been sent.
C7_SummarySent == (pc = "done" /\ total_saved >= 1) => calls.ses >= 1

\* C9: for every integer MAX_QUERIES_PER_RUN a run executes no more than
\* that many queries, a prefix of SEARCH_QUERIES, with at most one search
\* request per query, at most MAX_RESULTS_PER_QUERY results per query and at
\* most three page fetches per result.
C9_CallsBounded ==
  /\ Len(queries) <= Max2(env.MAX_QUERIES_PER_RUN, 0)
  /\ calls.queries <= Max2(env.MAX_QUERIES_PER_RUN, 0)
  /\ queries = SubSeq(SEARCH_QUERIES, 1, Len(queries))
  /\ calls.search <= calls.queries
  /\ Len(items) <= MAX_RESULTS_PER_QUERY
  /\ calls.results <= MAX_RESULTS_PER_QUERY * calls.queries
  /\ Len(fetchLog) <= 3
  /\ calls.fetch <= 3 * calls.results

(***************************************************************************)
(* build_lead_item on its own: arguments with lengths about each cap, and  *)
(* the item handed to save_lead_to_dynamo as process_search_results does.  *)
(***************************************************************************)
\* How far beyond a cap the lengths of the arguments go.
ItemOver == 1

\* What the functions on their own run under: the default configuration.
DefaultEnv == [MAX_QUERIES_PER_RUN |-> 8, GOOGLE |-> TRUE, TABLE |-> TRUE]

\* Each argument's cap: a length in characters, or a number of entries.
ItemCaps ==
  [ title |-> MAX_TITLE_LEN, snippet |-> MAX_SEARCH_SNIPPET_LEN, url |-> MAX_URL_LEN,
    host |-> MAX_DOMAIN_LEN, source_query |-> MAX_SOURCE_QUERY_LEN,
    emails |-> MAX_EMAILS, email |-> MAX_EMAIL_LEN,
    phones |-> MAX_PHONES, phone |-> MAX_PHONE_LEN,
    addresses |-> MAX_ADDRESSES, address |-> MAX_ADDRESS_LEN,
    contact_name |-> MAX_CONTACT_NAME_LEN, contact_snippet |-> MAX_CONTACT_SNIPPET_LEN ]

\* The sizes of the arguments: all small but one, which is about its cap; or
\* all at their caps; or all beyond them.
ItemShapes ==
  UNION { { [[f \in DOMAIN ItemCaps |-> 2] EXCEPT ![g] = n] :
              n \in (ItemCaps[g] - 1)..(ItemCaps[g] + ItemOver) } :
          g \in DOMAIN ItemCaps }
  \cup { [f \in DOMAIN ItemCaps |-> ItemCaps[f] + d] : d \in 0..ItemOver }

ItemInputs ==
  [ name : {"build_lead_item"}, shape : ItemShapes,
    chosen : {"none", "first", "empty"}, named : BOOLEAN ]

\* n distinct strings of len characters each (n <= 26, len >= 1).
Distinct(n, len, c) ==
  [k \in 1..n |-> SubSeq("abcdefghijklmnopqrstuvwxyz", k, k) \o Rep(c, len - 1)]

\* A link of u characters in all whose network location has h characters.
LinkOf(u, h) == "https://" \o Rep("h", h) \o "/" \o Rep("p", u - h - 9)

ItemOf(in) ==
  build_lead_item(
    [ title   |-> Rep("t", in.shape.title),
      link    |-> LinkOf(Max2(in.shape.url, in.shape.host + 9), in.shape.host),
      snippet |-> Rep("s", in.shape.snippet) ],
    Distinct(in.shape.emails, in.shape.email, "e"),
    Distinct(in.shape.phones, in.shape.phone, "5"),
    Distinct(in.shape.addresses, in.shape.address, "a"),
    IF in.named THEN Some(Rep("n", in.shape.contact_name)) ELSE None,
    Some(Rep("c", in.shape.contact_snippet)),
    CASE in.chosen = "none"  -> None
      [] in.chosen = "empty" -> Some("")
      [] in.chosen = "first" -> Some("a" \o Rep("e", in.shape.email - 1)),
    Rep("q", in.shape.source_query),
    now)

InitItem ==
  /\ env = DefaultEnv
  /\ world = QuietWorld
  /\ PipelineInit
  /\ fin \in ItemInputs
  /\ fout = NoFunction

\* item = build_lead_item(...)
BuildItem ==
  /\ fin.name = "build_lead_item"
  /\ fout = NoFunction
  /\ fout' = [name |-> "item", item |-> ItemOf(fin)]
  /\ UNCHANGED << env, world, now, store, pc, run, queries, qi, total_saved, items,
                  ri, saved_count, cur, ei, response, fetchLog, saves, lastPut,
                  keyOf, calls, tried, lost, hist, fin >>

\* save_lead_to_dynamo(item)
SaveItem ==
  /\ fout.name = "item"
  /\ lastPut = NoPut
  /\ \E outcome \in PutOutcomes :
       /\ lastPut' = [item |-> fout.item, outcome |-> outcome, n |-> 1]
       /\ store' = IF save_lead_to_dynamo(outcome).saved
                   THEN (fout.item.id :> fout.item) @@ store ELSE store
  /\ UNCHANGED << env, world, now, pc, run, queries, qi, total_saved, items, ri,
                  saved_count, cur, ei, response, fetchLog, saves, keyOf, calls,
                  tried, lost, hist, fin, fout >>

NextItem ==
  \/ BuildItem
  \/ SaveItem

SpecItem == InitItem /\ [][NextItem]_vars

\* The caps C8 lists, of one item.
C8_Capped(item) ==
  /\ Len(item.emails) <= 15 /\ \A k \in DOMAIN item.emails : Len(item.emails[k]) <= 254
  /\ Len(item.phones) <= 10 /\ \A k \in DOMAIN item.phones : Len(item.phones[k]) <= 64
  /\ Len(item.addresses) <= 10
  /\ \A k \in DOMAIN item.addresses : Len(item.addresses[k]) <= 512
  /\ Len(item.title) <= 300
  /\ Len(item.snippet) <= 500
  /\ "contact_snippet" \in DOMAIN item => Len(item.contact_snippet) <= 800
  /\ Len(item.url) <= 1000
  /\ Len(item.domain) <= 255
  /\ Len(item.source_query) <= 500
  /\ "primary_email" \in DOMAIN item => Len(item.primary_email) <= 254
  /\ "contact_name" \in DOMAIN item => Len(item.contact_name) <= 255

\* C8: every item passed to the store satisfies the size caps, whatever the
\* lengths of the texts and lists it is built from.
C8_ItemsCapped ==
  /\ fout.name = "item" => C8_Capped(fout.item)
  /\ lastPut # NoPut => C8_Capped(lastPut.item)
  /\ \A id \in DOMAIN store : C8_Capped(store[id])

\* An item built from arguments that all exceed their caps was put, cut to
\* exactly the caps.
C8_Witness ==
  /\ \A f \in DOMAIN ItemCaps : fin.shape[f] > ItemCaps[f]
  /\ fin.chosen = "first" /\ fin.named
  /\ lastPut # NoPut
  /\ lastPut.item = fout.item
  /\ Len(lastPut.item.emails) = 15 /\ Len(lastPut.item.emails[1]) = 254
  /\ Len(lastPut.item.url) = 1000 /\ Len(lastPut.item.domain) = 255
  /\ Len(lastPut.item.contact_snippet) = 800 /\ Len(lastPut.item.primary_email) = 254

(***************************************************************************)
(* find_contact_snippet on its own: texts with a keyword (or none) at       *)
(* offsets about the window's reach.                                       *)
(***************************************************************************)
\* The longest run of filling characters before or after the keywords.
MaxFill == 450

Fills == {0, 1, SNIPPET_BEFORE - 1, SNIPPET_BEFORE, SNIPPET_BEFORE + 1,
          SNIPPET_AFTER - 7, SNIPPET_AFTER, SNIPPET_AFTER + 1, MaxFill}

SnippetWords ==
  { "", "contact", "CONTACT us", "phone", "Email", "tel", "call", "hotel",
    "email then phone", "call or tel", "phone or contact", "e-mail" }

SnippetInputs ==
  [ name : {"find_contact_snippet"}, before : Fills, word : SnippetWords,
    after : Fills, fill : {"x", " "} ]

SnippetText(in) == Rep(in.fill, in.before) \o in.word \o Rep(in.fill, in.after)

InitSnippet ==
  /\ env = DefaultEnv
  /\ world = QuietWorld
  /\ PipelineInit
  /\ fin \in SnippetInputs
  /\ fout = NoFunction

\* contact_snippet = find_contact_snippet(combined_text)
FindSnippet ==
  /\ fin.name = "find_contact_snippet"
  /\ fout = NoFunction
  /\ fout' = [name |-> "snippet", text |-> SnippetText(fin),
              value |-> find_contact_snippet(SnippetText(fin))]
  /\ UNCHANGED << env, world, now, store, pc, run, queries, qi, total_saved, items,
                  ri, saved_count, cur, ei, response, fetchLog, saves, lastPut,
                  keyOf, calls, tried, lost, hist, fin >>

NextSnippet == FindSnippet

SpecSnippet == InitSnippet /\ [][NextSnippet]_vars

\* The offset of the first of the keywords ks (in their order) that occurs in
\* the lower-cased text, or -1.
RECURSIVE C10_Idx(_, _)
C10_Idx(lower, ks) ==
  IF ks = <<>> THEN -1
  ELSE IF \E i \in 0..Len(lower) : StartsAt(lower, ks[1], i)
  THEN CHOOSE i \in 0..Len(lower) :
         StartsAt(lower, ks[1], i) /\ \A j \in 0..(i - 1) : ~StartsAt(lower, ks[1], j)
  ELSE C10_Idx(lower, Tail(ks))

\* text[idx - 200 : idx + 400], from the start of the text when idx < 200
C10_Window(text, idx) ==
  SubSeq(text, (IF idx > 200 THEN idx - 200 ELSE 0) + 1,
         IF idx + 400 < Len(text) THEN idx + 400 ELSE Len(text))

\* text[:400]
C10_First400(text) == IF Len(text) > 400 THEN SubSeq(text, 1, 400) ELSE text

\* C10 as stated: a non-empty text without "contact", "phone" and "email"
\* (in any case) yields its first 400 characters; any other yields the window
\* from 200 characters before to 400 after the first "contact", or without
\* "contact", the first of the other keywords found.
C10_SnippetWindow ==
  (fout.name = "snippet" /\ fout.text # "") =>
    fout.value =
      Some(IF C10_Idx(Lower(fout.text), <<"contact", "phone", "email">>) = -1
           THEN C10_First400(fout.text)
           ELSE C10_Window(fout.text,
                           C10_Idx(Lower(fout.text), <<"contact", "phone", "email">>)))

\* C10 as amended: the keywords are "contact", then "phone", "tel", "call"
\* and "email" in that order, sought in the lower-cased text, and the window
\* is returned without its leading and trailing whitespace.
C10_SnippetWindowStripped ==
  (fout.name = "snippet" /\ fout.text # "") =>
    fout.value =
      Some(IF C10_Idx(Lower(fout.text), <<"contact", "phone", "tel", "call", "email">>) = -1
           THEN C10_First400(fout.text)
           ELSE Strip(C10_Window(fout.text,
                        C10_Idx(Lower(fout.text),
                                <<"contact", "phone", "tel", "call", "email">>))))

\* A text of more than 600 characters whose only keyword is the "tel" of
\* "hotel", more than 200 characters in, gave the window about it, stripped.
C10_Witness ==
  /\ fout.name = "snippet"
  /\ fin.word = "hotel"
  /\ fin.before > 200
  /\ fin.after > 400
  /\ fin.fill = " "
  /\ fout.value = Some("hotel")


=============================================================================
